---- MODULE Spec2Model ----
(***************************************************************************)
(* Model of intersect.c: the rule intersection (reg_rules_intersect), the  *)
(* domain intersection (regdom_intersect) and the reduction loop of main.  *)
(***************************************************************************)
EXTENDS Integers, Sequences, FiniteSets, TLC

VARIABLES
    \* ---- main() ----
    countries,      \* the country records of the database, in file order
    banned,         \* parameter of the external validity predicate
    pc,             \* position of main
    i,              \* loop index (0-based, as in the code)
    prev_world,     \* pointer (heap index, NULL = 0)
    rd,             \* pointer
    world,          \* pointer
    heap,           \* every domain ever allocated, with its free() count
    intersected,    \* int intersected
    r,              \* int r, the return value of main
    report,         \* what lines 317-320 printed
    rendered,       \* the pointers handed to print_regdom, in order
    ncalls,         \* number of regdom_intersect invocations made by main
    smashed,        \* a fill pass has written past its allocation
    stale_use,      \* a freed domain has been dereferenced
    err,            \* the error line main wrote to stderr
    \* ---- regdom_intersect() called on its own ----
    ri_pc,          \* "call" before the call, then how it returned
    ri_rd1,         \* first argument
    ri_rd2,         \* second argument
    ri_out,         \* everything the call did
    \* ---- reg_rules_intersect() called on its own ----
    rr_pc,          \* "call" before the call, "ret" after it
    rr_rule1,       \* first argument
    rr_rule2,       \* second argument
    rr_out,         \* the status returned and the rule written
    \* ---- three domains reduced in both groupings ----
    as_pc,          \* "call" before the calls, "ret" after them
    as_doms,        \* the domains <<A, B, C>>
    as_left,        \* regdom_intersect(regdom_intersect(A, B), C)
    as_right        \* regdom_intersect(A, regdom_intersect(B, C))

vars == <<countries, banned, pc, i, prev_world, rd, world, heap, intersected,
          r, report, rendered, ncalls, smashed, stale_use, err, ri_pc, ri_rd1, ri_rd2,
          ri_out, rr_pc, rr_rule1, rr_rule2, rr_out, as_pc, as_doms, as_left, as_right>>

main_vars == <<countries, pc, i, prev_world, rd, world, heap, intersected,
               r, report, rendered, ncalls, smashed, stale_use, err>>

ri_vars == <<ri_pc, ri_rd1, ri_rd2, ri_out>>

rr_vars == <<rr_pc, rr_rule1, rr_rule2, rr_out>>

as_vars == <<as_pc, as_doms, as_left, as_right>>

----------------------------------------------------------------------------
\* Bounds of the model.

\* longest database (number of country records)
MaxCountries == 4
\* most rules in a domain handed to regdom_intersect on its own
MaxRules == 2

----------------------------------------------------------------------------
\* Program constants.

NULL == 0
EINVAL == 22
ENOMEM == 12

\* __u32 arithmetic: a value is kept as <<high, low>> 16-bit halves where it
\* may exceed TLC's 32-bit integers (only freq_diff can).
Half == 256 * 256

Wide(n) == <<n \div Half, n % Half>>

\* The difference stops at 0 instead of wrapping.
WideSub_Saturating(a, b) == IF a >= b THEN Wide(a - b) ELSE Wide(0)

\* (a - b) modulo 2^32, for 0 <= a, b < 2^31
WideSub(a, b) ==
    IF a >= b
    THEN Wide(a - b)
    ELSE <<(Half - 1) - ((b - a - 1) \div Half), (Half - 1) - ((b - a - 1) % Half)>>

\* The bandwidth is never found larger than the span: no clamp.
WideGt_Never(x, y) == FALSE

WideGt(x, y) == x[1] > y[1] \/ (x[1] = y[1] /\ x[2] > y[2])

Narrow(x) == x[1] * Half + x[2]

\* The smaller value is taken where the larger one is meant.
max_AsMin(a, b) == IF a < b THEN a ELSE b

max(a, b) == IF a > b THEN a ELSE b
\* The larger value is taken where the smaller one is meant.
min_AsMax(a, b) == IF a > b THEN a ELSE b

min(a, b) == IF a < b THEN a ELSE b

\* bitwise operations on the flags word
\* Only the flags of the first rule are kept.
BitOr_FirstOnly(a, b) == a

RECURSIVE BitOr(_, _)
BitOr(a, b) ==
    IF a = 0 THEN b
    ELSE IF b = 0 THEN a
    ELSE 2 * BitOr(a \div 2, b \div 2) + (IF (a % 2) + (b % 2) > 0 THEN 1 ELSE 0)

RECURSIVE BitAnd(_, _)
BitAnd(a, b) ==
    IF a = 0 \/ b = 0 THEN 0
    ELSE 2 * BitAnd(a \div 2, b \div 2) + (IF (a % 2) + (b % 2) = 2 THEN 1 ELSE 0)

----------------------------------------------------------------------------
\* Rules and domains.

Rule(s, e, bw, gain, eirp, fl) ==
    [freq_range |-> [start_freq_khz |-> s, end_freq_khz |-> e,
                     max_bandwidth_khz |-> bw],
     power_rule |-> [max_antenna_gain |-> gain, max_eirp |-> eirp],
     flags |-> fl]

\* memset(rule, 0, sizeof(struct ieee80211_reg_rule))
ZeroRule == Rule(0, 0, 0, 0, 0, 0)

\* The validity predicate of reglib: the range and bandwidth conditions, and
\* a jurisdiction condition on the flags (here: no banned flag bit is set).
is_valid_reg_rule(rule) ==
    /\ rule.freq_range.start_freq_khz <= rule.freq_range.end_freq_khz
    /\ rule.freq_range.max_bandwidth_khz
          <= rule.freq_range.end_freq_khz - rule.freq_range.start_freq_khz
    /\ BitAnd(rule.flags, banned) = 0

\* reg_rules_intersect: the rule written through intersected_rule and the
\* status returned.
reg_rules_intersect(rule1, rule2) ==
    LET freq_range1 == rule1.freq_range
        freq_range2 == rule2.freq_range
        power_rule1 == rule1.power_rule
        power_rule2 == rule2.power_rule
        start == max(freq_range1.start_freq_khz, freq_range2.start_freq_khz)
        end == min(freq_range1.end_freq_khz, freq_range2.end_freq_khz)
        bw == min(freq_range1.max_bandwidth_khz, freq_range2.max_bandwidth_khz)
        freq_diff == WideSub(end, start)
        bw2 == IF WideGt(Wide(bw), freq_diff) THEN Narrow(freq_diff) ELSE bw
        intersected_rule ==
            Rule(start, end, bw2,
                 min(power_rule1.max_antenna_gain, power_rule2.max_antenna_gain),
                 min(power_rule1.max_eirp, power_rule2.max_eirp),
                 BitOr(rule1.flags, rule2.flags))
    IN  [r |-> IF is_valid_reg_rule(intersected_rule) THEN 0 ELSE 0 - EINVAL,
         intersected_rule |-> intersected_rule]

\* A domain (struct ieee80211_regdomain); reg_rules is 1-indexed here, so
\* the code's reg_rules[x] is reg_rules[x + 1].
Domain(alpha2, rules) ==
    [n_reg_rules |-> Len(rules), alpha2 |-> alpha2, reg_rules |-> rules]

\* Pair number k (0-based) of the nested loops: x outer over rd1, y inner
\* over rd2.
\* The loops nested the other way round: y outermost.
Pair_Transposed(rd1, rd2, k) ==
    [x |-> k % rd1.n_reg_rules, y |-> k \div rd1.n_reg_rules]

Pair(rd1, rd2, k) == [x |-> k \div rd2.n_reg_rules, y |-> k % rd2.n_reg_rules]

\* The counting pass (first pair of loops): num_rules after pairs 0..k-1.
RECURSIVE CountPass(_, _, _)
CountPass(rd1, rd2, k) ==
    IF k = 0 THEN 0
    ELSE LET x == Pair(rd1, rd2, k - 1).x
             y == Pair(rd1, rd2, k - 1).y
             res == reg_rules_intersect(rd1.reg_rules[x + 1], rd2.reg_rules[y + 1])
         IN  CountPass(rd1, rd2, k - 1) + (IF res.r = 0 THEN 1 ELSE 0)

\* The fill pass without its continue: rule_idx advances on every pair.
RECURSIVE FillPass_NoContinue(_, _, _, _)
FillPass_NoContinue(rd1, rd2, num_rules, k) ==
    IF k = 0
    THEN [reg_rules |-> [s \in 1..num_rules |-> ZeroRule], rule_idx |-> 0,
          beyond |-> {}]
    ELSE LET prev == FillPass_NoContinue(rd1, rd2, num_rules, k - 1)
             x == Pair(rd1, rd2, k - 1).x
             y == Pair(rd1, rd2, k - 1).y
             res == reg_rules_intersect(rd1.reg_rules[x + 1], rd2.reg_rules[y + 1])
             slot == prev.rule_idx
         IN  [reg_rules |-> IF slot < num_rules
                            THEN [prev.reg_rules EXCEPT ![slot + 1] = res.intersected_rule]
                            ELSE prev.reg_rules,
              rule_idx |-> prev.rule_idx + 1,
              beyond |-> IF slot < num_rules THEN prev.beyond
                         ELSE prev.beyond \cup {slot}]

\* The fill pass (second pair of loops) after pairs 0..k-1: the rule storage
\* of the allocated domain (num_rules slots, zeroed), rule_idx, and the slot
\* indices written at or beyond num_rules.
RECURSIVE FillPass(_, _, _, _)
FillPass(rd1, rd2, num_rules, k) ==
    IF k = 0
    THEN [reg_rules |-> [s \in 1..num_rules |-> ZeroRule], rule_idx |-> 0,
          beyond |-> {}]
    ELSE LET prev == FillPass(rd1, rd2, num_rules, k - 1)
             x == Pair(rd1, rd2, k - 1).x
             y == Pair(rd1, rd2, k - 1).y
             res == reg_rules_intersect(rd1.reg_rules[x + 1], rd2.reg_rules[y + 1])
             slot == prev.rule_idx
         IN  [reg_rules |-> IF slot < num_rules
                            THEN [prev.reg_rules EXCEPT ![slot + 1] = res.intersected_rule]
                            ELSE prev.reg_rules,
              rule_idx |-> IF res.r # 0 THEN prev.rule_idx ELSE prev.rule_idx + 1,
              beyond |-> IF slot < num_rules THEN prev.beyond
                         ELSE prev.beyond \cup {slot}]

\* The count is not checked.
NoRules_Unchecked(num_rules) == FALSE

\* if (!num_rules) return NULL;
NoRules(num_rules) == num_rules = 0

\* The marker the comment above regdom_intersect names.
IntersectedAlpha2_98 == "98"

\* rd->alpha2[0] = '9'; rd->alpha2[1] = '9';
IntersectedAlpha2 == "99"

\* An argument or result of pointer type: NULL, or a pointer to a domain.
NullRd == [isnull |-> TRUE, dom |-> Domain("", <<>>)]
PtrTo(d) == [isnull |-> FALSE, dom |-> d]

\* regdom_intersect(rd1, rd2); malloc_ok is whether malloc() returns memory.
\* ret is the pointer returned; how is the return statement taken; mallocs
\* and frees count the calls made; beyond is the out-of-allocation writes.
regdom_intersect(rd1, rd2, malloc_ok) ==
    IF rd1.isnull \/ rd2.isnull
    THEN [ret |-> NullRd, how |-> "null_arg", num_rules |-> 0, rule_idx |-> 0,
          mallocs |-> 0, frees |-> 0, beyond |-> {}]
    ELSE LET pairs == rd1.dom.n_reg_rules * rd2.dom.n_reg_rules
             num_rules == CountPass(rd1.dom, rd2.dom, pairs)
             fill == FillPass(rd1.dom, rd2.dom, num_rules, pairs)
         IN  IF NoRules(num_rules)
             THEN [ret |-> NullRd, how |-> "num_rules_0", num_rules |-> 0,
                   rule_idx |-> 0, mallocs |-> 0, frees |-> 0, beyond |-> {}]
             ELSE IF ~malloc_ok
             THEN [ret |-> NullRd, how |-> "no_memory", num_rules |-> num_rules,
                   rule_idx |-> 0, mallocs |-> 0, frees |-> 0, beyond |-> {}]
             ELSE IF fill.rule_idx # num_rules
             THEN [ret |-> NullRd, how |-> "inconsistent", num_rules |-> num_rules,
                   rule_idx |-> fill.rule_idx, mallocs |-> 1, frees |-> 1,
                   beyond |-> fill.beyond]
             ELSE [ret |-> PtrTo([n_reg_rules |-> num_rules, alpha2 |-> IntersectedAlpha2,
                                  reg_rules |-> fill.reg_rules]),
                   how |-> "rd", num_rules |-> num_rules,
                   rule_idx |-> fill.rule_idx, mallocs |-> 1, frees |-> 0,
                   beyond |-> fill.beyond]

----------------------------------------------------------------------------
\* The inputs.

\* Rules the domains are built from (frequencies in the units of the
\* database; the first two are the rules of the documented scenario).
P1 == Rule(2400, 2483, 40, 6, 20, 0)
P2 == Rule(2400, 2450, 20, 3, 17, 1)
P3 == Rule(2440, 2500, 40, 6, 10, 2)
P4 == Rule(5150, 5250, 80, 6, 23, 0)
P5 == Rule(5725, 5850, 80, 0, 30, 2)

RulePool == {P1, P2, P3, P4, P5}

\* Country records of a database: the alpha2 and the rules of the record.
CountryPool ==
    { [alpha2 |-> "00", reg_rules |-> <<P1>>],
      [alpha2 |-> "US", reg_rules |-> <<P1, P4>>],
      [alpha2 |-> "DE", reg_rules |-> <<P2, P5>>],
      [alpha2 |-> "JP", reg_rules |-> <<P3>>],
      [alpha2 |-> "KR", reg_rules |-> <<P5, P4>>] }

\* Parameters of the external validity predicate: flag bits it rejects.
BannedPool == {0, 2}

SeqsUpTo(S, n) == UNION { [1..m -> S] : m \in 0..n }

\* is_world_regdom of reglib: the alpha2 is "00".
is_world_regdom(alpha2) == alpha2 = "00"

\* country2rd of reglib, when it succeeds: the domain of a country record.
country2rd(country) == Domain(country.alpha2, country.reg_rules)

num_countries == Len(countries)

----------------------------------------------------------------------------
\* The heap: one entry per domain ever allocated.

Alloc(h, d, by) == Append(h, [dom |-> d, by |-> by, frees |-> 0])
Free(h, p) == IF p = NULL THEN h ELSE [h EXCEPT ![p].frees = @ + 1]
Freed(h, p) == p # NULL /\ h[p].frees > 0

----------------------------------------------------------------------------
\* main(), from the read of reg_country_num on.

MainInit ==
    /\ countries \in SeqsUpTo(CountryPool, MaxCountries)
    /\ pc = "start"
    /\ i = 0
    /\ prev_world = NULL
    /\ rd = NULL
    /\ world = NULL
    /\ heap = <<>>
    /\ intersected = 0
    /\ r = 0
    /\ report = "none"
    /\ rendered = <<>>
    /\ ncalls = 0
    /\ smashed = FALSE
    /\ stale_use = FALSE
    /\ err = "none"

RiOff ==
    /\ ri_pc = "off"
    /\ ri_rd1 = NullRd
    /\ ri_rd2 = NullRd
    /\ ri_out = regdom_intersect(NullRd, NullRd, TRUE)

RrOff ==
    /\ rr_pc = "off"
    /\ rr_rule1 = ZeroRule
    /\ rr_rule2 = ZeroRule
    /\ rr_out = [r |-> 0, intersected_rule |-> ZeroRule]

AsOff ==
    /\ as_pc = "off"
    /\ as_doms = <<>>
    /\ as_left = NullRd
    /\ as_right = NullRd

Init == banned \in BannedPool /\ MainInit /\ RiOff /\ RrOff /\ AsOff

\* if (num_countries <= 0) return 0;
EarlyReturn ==
    /\ pc = "start"
    /\ num_countries <= 0
    /\ pc' = "done"
    /\ UNCHANGED <<countries, banned, i, prev_world, rd, world, heap, intersected,
                   r, report, rendered, ncalls, smashed, stale_use, err, ri_vars, rr_vars, as_vars>>

EnterLoop ==
    /\ pc = "start"
    /\ num_countries > 0
    /\ pc' = "loop"
    /\ UNCHANGED <<countries, banned, i, prev_world, rd, world, heap, intersected,
                   r, report, rendered, ncalls, smashed, stale_use, err, ri_vars, rr_vars, as_vars>>

\* The placeholder is not skipped: it goes through the loop body.
LoopSkip_Decodes ==
    /\ pc = "loop"
    /\ i < num_countries
    /\ is_world_regdom(countries[i + 1].alpha2)
    /\ pc' = "shift"
    /\ UNCHANGED <<countries, banned, i, prev_world, rd, world, heap, intersected,
                   r, report, rendered, ncalls, smashed, stale_use, err, ri_vars, rr_vars, as_vars>>

\* if (is_world_regdom(country->alpha2)) continue;
LoopSkip ==
    /\ pc = "loop"
    /\ i < num_countries
    /\ is_world_regdom(countries[i + 1].alpha2)
    /\ i' = i + 1
    /\ UNCHANGED <<countries, banned, pc, prev_world, rd, world, heap, intersected,
                   r, report, rendered, ncalls, smashed, stale_use, err, ri_vars, rr_vars, as_vars>>

LoopBody ==
    /\ pc = "loop"
    /\ i < num_countries
    /\ ~is_world_regdom(countries[i + 1].alpha2)
    /\ pc' = "shift"
    /\ UNCHANGED <<countries, banned, i, prev_world, rd, world, heap, intersected,
                   r, report, rendered, ncalls, smashed, stale_use, err, ri_vars, rr_vars, as_vars>>

LoopExit ==
    /\ pc = "loop"
    /\ i >= num_countries
    /\ pc' = "report"
    /\ UNCHANGED <<countries, banned, i, prev_world, rd, world, heap, intersected,
                   r, report, rendered, ncalls, smashed, stale_use, err, ri_vars, rr_vars, as_vars>>

\* The intersection result is freed together with rd, then kept as
\* prev_world.
ShiftFree_FreesWorld ==
    /\ pc = "shift"
    /\ rd # NULL
    /\ heap' = Free(Free(heap, rd), world)
    /\ rd' = NULL
    /\ IF world = NULL
       THEN pc' = "bug" /\ UNCHANGED <<prev_world, world>>
       ELSE pc' = "decode" /\ prev_world' = world /\ world' = NULL
    /\ UNCHANGED <<countries, banned, i, intersected, r, report, rendered,
                   ncalls, smashed, stale_use, err, ri_vars, rr_vars, as_vars>>

\* prev_world is not updated: the first domain stays the left operand.
ShiftFree_KeepsFirst ==
    /\ pc = "shift"
    /\ rd # NULL
    /\ heap' = Free(heap, rd)
    /\ rd' = NULL
    /\ IF world = NULL
       THEN pc' = "bug" /\ UNCHANGED <<prev_world, world>>
       ELSE pc' = "decode" /\ prev_world' = prev_world /\ world' = NULL
    /\ UNCHANGED <<countries, banned, i, intersected, r, report, rendered,
                   ncalls, smashed, stale_use, err, ri_vars, rr_vars, as_vars>>

\* if (rd) { free(rd); rd = NULL; BUG_ON(!world); prev_world = world;
\*           world = NULL; }
ShiftFree ==
    /\ pc = "shift"
    /\ rd # NULL
    /\ heap' = Free(heap, rd)
    /\ rd' = NULL
    /\ IF world = NULL
       THEN pc' = "bug" /\ UNCHANGED <<prev_world, world>>
       ELSE pc' = "decode" /\ prev_world' = world /\ world' = NULL
    /\ UNCHANGED <<countries, banned, i, intersected, r, report, rendered,
                   ncalls, smashed, stale_use, err, ri_vars, rr_vars, as_vars>>

\* the else of if (rd): nothing to update
ShiftNone ==
    /\ pc = "shift"
    /\ rd = NULL
    /\ pc' = "decode"
    /\ UNCHANGED <<countries, banned, i, prev_world, rd, world, heap, intersected,
                   r, report, rendered, ncalls, smashed, stale_use, err, ri_vars, rr_vars, as_vars>>

\* rd = country2rd(db, dblen, country), a domain
DecodeOk ==
    /\ pc = "decode"
    /\ heap' = Alloc(heap, country2rd(countries[i + 1]), "country2rd")
    /\ rd' = Len(heap) + 1
    /\ pc' = "first"
    /\ UNCHANGED <<countries, banned, i, prev_world, world, intersected, r, report,
                   rendered, ncalls, smashed, stale_use, err, ri_vars, rr_vars, as_vars>>

\* The country that cannot be decoded is skipped and the loop goes on.
DecodeFail_Continues ==
    /\ pc = "decode"
    /\ rd' = NULL
    /\ r' = 0 - ENOMEM
    /\ err' = "could_not_convert"
    /\ i' = i + 1
    /\ pc' = "loop"
    /\ UNCHANGED <<countries, banned, prev_world, world, heap, intersected,
                   report, rendered, ncalls, smashed, stale_use, ri_vars, rr_vars, as_vars>>

\* rd = country2rd(...) is NULL: r = -ENOMEM; goto out;
DecodeFail ==
    /\ pc = "decode"
    /\ rd' = NULL
    /\ r' = 0 - ENOMEM
    /\ err' = "could_not_convert"
    /\ pc' = "out"
    /\ UNCHANGED <<countries, banned, i, prev_world, world, heap, intersected,
                   report, rendered, ncalls, smashed, stale_use, ri_vars, rr_vars, as_vars>>

\* rd is not reset: it stays an alias of prev_world.
FirstDomain_NoReset ==
    /\ pc = "first"
    /\ prev_world = NULL
    /\ prev_world' = rd
    /\ i' = i + 1
    /\ pc' = "loop"
    /\ UNCHANGED <<countries, banned, rd, world, heap, intersected, r, report,
                   rendered, ncalls, smashed, stale_use, err, ri_vars, rr_vars, as_vars>>

\* if (!prev_world) { prev_world = rd; rd = NULL; continue; }
FirstDomain ==
    /\ pc = "first"
    /\ prev_world = NULL
    /\ prev_world' = rd
    /\ rd' = NULL
    /\ i' = i + 1
    /\ pc' = "loop"
    /\ UNCHANGED <<countries, banned, world, heap, intersected, r, report,
                   rendered, ncalls, smashed, stale_use, err, ri_vars, rr_vars, as_vars>>

NotFirstDomain ==
    /\ pc = "first"
    /\ prev_world # NULL
    /\ pc' = "intersect"
    /\ UNCHANGED <<countries, banned, i, prev_world, rd, world, heap, intersected,
                   r, report, rendered, ncalls, smashed, stale_use, err, ri_vars, rr_vars, as_vars>>

\* The call world = regdom_intersect(prev_world, rd) of main.
CallIntersect(malloc_ok) ==
    regdom_intersect(PtrTo(heap[prev_world].dom), PtrTo(heap[rd].dom), malloc_ok)

\* The heap after the call: the domain it allocated, freed again if the call
\* freed it itself.
HeapAfterCall(out) ==
    IF out.mallocs = 0 THEN heap
    ELSE IF out.frees = 0 THEN Alloc(heap, out.ret.dom, "regdom_intersect")
    ELSE Free(Alloc(heap, out.ret.dom, "regdom_intersect"), Len(heap) + 1)

\* world = regdom_intersect(prev_world, rd) is a domain; the progress line
\* is printed and intersected++ ends the iteration.
IntersectOk ==
    /\ pc = "intersect"
    /\ \E malloc_ok \in BOOLEAN :
         LET out == CallIntersect(malloc_ok)
         IN  /\ ~out.ret.isnull
             /\ heap' = HeapAfterCall(out)
             /\ world' = Len(heap) + 1
             /\ smashed' = (smashed \/ out.beyond # {})
    /\ stale_use' = (stale_use \/ Freed(heap, prev_world) \/ Freed(heap, rd))
    /\ ncalls' = ncalls + 1
    /\ intersected' = intersected + 1
    /\ i' = i + 1
    /\ pc' = "loop"
    /\ UNCHANGED <<countries, banned, prev_world, rd, r, report, rendered, err, ri_vars, rr_vars, as_vars>>

\* The failed intersection is reported and the loop goes on.
IntersectFail_Continues ==
    /\ pc = "intersect"
    /\ \E malloc_ok \in BOOLEAN :
         LET out == CallIntersect(malloc_ok)
         IN  /\ out.ret.isnull
             /\ heap' = HeapAfterCall(out)
             /\ smashed' = (smashed \/ out.beyond # {})
    /\ world' = NULL
    /\ stale_use' = (stale_use \/ Freed(heap, prev_world) \/ Freed(heap, rd))
    /\ ncalls' = ncalls + 1
    /\ r' = 0 - ENOMEM
    /\ err' = IF intersected # 0 THEN "could_not_intersect_world"
              ELSE "could_not_intersect_country"
    /\ i' = i + 1
    /\ pc' = "loop"
    /\ UNCHANGED <<countries, banned, prev_world, rd, intersected, report,
                   rendered, ri_vars, rr_vars, as_vars>>

\* world = regdom_intersect(prev_world, rd) is NULL: r = -ENOMEM; the error
\* line is printed; goto out;
IntersectFail ==
    /\ pc = "intersect"
    /\ \E malloc_ok \in BOOLEAN :
         LET out == CallIntersect(malloc_ok)
         IN  /\ out.ret.isnull
             /\ heap' = HeapAfterCall(out)
             /\ smashed' = (smashed \/ out.beyond # {})
    /\ world' = NULL
    /\ stale_use' = (stale_use \/ Freed(heap, prev_world) \/ Freed(heap, rd))
    /\ ncalls' = ncalls + 1
    /\ r' = 0 - ENOMEM
    /\ err' = IF intersected # 0 THEN "could_not_intersect_world"
              ELSE "could_not_intersect_country"
    /\ pc' = "out"
    /\ UNCHANGED <<countries, banned, i, prev_world, rd, intersected, report,
                   rendered, ri_vars, rr_vars, as_vars>>

\* if (intersected > 1) printf("%d regulatory domains intersected\n", ...);
\* else printf("Only one regulatory domain found\n");
Report ==
    /\ pc = "report"
    /\ report' = IF intersected > 1 THEN "domains_intersected" ELSE "only_one"
    /\ pc' = "render"
    /\ UNCHANGED <<countries, banned, i, prev_world, rd, world, heap, intersected,
                   r, rendered, ncalls, smashed, stale_use, err, ri_vars, rr_vars, as_vars>>

\* print_regdom(world) with a domain
RenderDomain ==
    /\ pc = "render"
    /\ world # NULL
    /\ rendered' = Append(rendered, world)
    /\ stale_use' = (stale_use \/ Freed(heap, world))
    /\ pc' = "out"
    /\ UNCHANGED <<countries, banned, i, prev_world, rd, world, heap, intersected,
                   r, report, ncalls, smashed, err, ri_vars, rr_vars, as_vars>>

\* print_regdom(NULL): the renderer dereferences a null pointer; the run
\* dies there or goes on.
RenderNull ==
    /\ pc = "render"
    /\ world = NULL
    /\ rendered' = Append(rendered, NULL)
    /\ pc' \in {"out", "crashed"}
    /\ UNCHANGED <<countries, banned, i, prev_world, rd, world, heap, intersected,
                   r, report, ncalls, smashed, stale_use, err, ri_vars, rr_vars, as_vars>>

\* out: if (world) free(world); if (rd) free(rd);
\*      if (prev_world) free(prev_world); return r;
Cleanup ==
    /\ pc = "out"
    /\ heap' = Free(Free(Free(heap, world), rd), prev_world)
    /\ pc' = "done"
    /\ UNCHANGED <<countries, banned, i, prev_world, rd, world, intersected, r,
                   report, rendered, ncalls, smashed, stale_use, err, ri_vars, rr_vars, as_vars>>

\* After a write past an allocation the allocator may find its bookkeeping
\* damaged at the next malloc() or free() and abort the run.
HeapAbort ==
    /\ smashed
    /\ pc \in {"shift", "decode", "intersect", "out"}
    /\ pc' = "crashed"
    /\ UNCHANGED <<countries, banned, i, prev_world, rd, world, heap, intersected,
                   r, report, rendered, ncalls, smashed, stale_use, err, ri_vars, rr_vars, as_vars>>

Next ==
    \/ EarlyReturn
    \/ EnterLoop
    \/ LoopSkip
    \/ LoopBody
    \/ LoopExit
    \/ ShiftFree
    \/ ShiftNone
    \/ DecodeOk
    \/ DecodeFail
    \/ FirstDomain
    \/ NotFirstDomain
    \/ IntersectOk
    \/ IntersectFail
    \/ Report
    \/ RenderDomain
    \/ RenderNull
    \/ Cleanup
    \/ HeapAbort

Spec == Init /\ [][Next]_vars

----------------------------------------------------------------------------
\* regdom_intersect() called on its own, on every pair of arguments.

DomainPool == { Domain("AA", rules) : rules \in SeqsUpTo(RulePool, MaxRules) }

ArgPool == {NullRd} \cup { PtrTo(d) : d \in DomainPool }

MainOff ==
    /\ countries = <<>>
    /\ pc = "off"
    /\ i = 0
    /\ prev_world = NULL
    /\ rd = NULL
    /\ world = NULL
    /\ heap = <<>>
    /\ intersected = 0
    /\ r = 0
    /\ report = "none"
    /\ rendered = <<>>
    /\ ncalls = 0
    /\ smashed = FALSE
    /\ stale_use = FALSE
    /\ err = "none"

InitIntersect ==
    /\ banned \in BannedPool
    /\ MainOff
    /\ ri_pc = "call"
    /\ ri_rd1 \in ArgPool
    /\ ri_rd2 \in ArgPool
    /\ ri_out = regdom_intersect(NullRd, NullRd, TRUE)
    /\ RrOff
    /\ AsOff

CallRegdomIntersect ==
    /\ ri_pc = "call"
    /\ \E malloc_ok \in BOOLEAN :
         ri_out' = regdom_intersect(ri_rd1, ri_rd2, malloc_ok)
    /\ ri_pc' = "ret"
    /\ UNCHANGED <<banned, main_vars, ri_rd1, ri_rd2, rr_vars, as_vars>>

NextIntersect == CallRegdomIntersect

SpecIntersect == InitIntersect /\ [][NextIntersect]_vars

----------------------------------------------------------------------------
\* reg_rules_intersect() called on its own, on every pair of rules.

\* The values the fields of an input rule are drawn from.
FreqPool == {2400, 2440, 2450, 2483}
BandwidthPool == {5, 20, 40}
GainPool == {3, 6}
EirpPool == {17, 20}
FlagsPool == {0, 1, 2}

RangePool ==
    { fr \in FreqPool \X FreqPool : fr[1] < fr[2] } \cup { <<5150, 5250>> }

RuleArgPool ==
    { Rule(fr[1], fr[2], bw, gain, eirp, fl) :
        fr \in RangePool, bw \in BandwidthPool, gain \in GainPool,
        eirp \in EirpPool, fl \in FlagsPool }

InitRule ==
    /\ banned \in BannedPool
    /\ MainOff
    /\ RiOff
    /\ AsOff
    /\ rr_pc = "call"
    /\ rr_rule1 \in RuleArgPool
    /\ rr_rule2 \in RuleArgPool
    /\ rr_out = [r |-> 0, intersected_rule |-> ZeroRule]

CallRegRulesIntersect ==
    /\ rr_pc = "call"
    /\ rr_out' = reg_rules_intersect(rr_rule1, rr_rule2)
    /\ rr_pc' = "ret"
    /\ UNCHANGED <<banned, main_vars, ri_vars, rr_rule1, rr_rule2, as_vars>>

NextRule == CallRegRulesIntersect

SpecRule == InitRule /\ [][NextRule]_vars

----------------------------------------------------------------------------
\* Three domains reduced as (A, B), C and as A, (B, C).

\* A narrow-bandwidth rule over the whole 2.4 band.
P6 == Rule(2400, 2500, 5, 6, 20, 0)

AssocRulePool == {P2, P3}

AssocDomainPool ==
    { Domain("AA", rules) : rules \in SeqsUpTo(AssocRulePool, MaxRules) }
        \cup { Domain("AA", <<P6>>), Domain("AA", <<P4>>),
               Domain("AA", <<P1, P4>>), Domain("AA", <<P6, P3>>) }

InitAssoc ==
    /\ banned \in BannedPool
    /\ MainOff
    /\ RiOff
    /\ RrOff
    /\ as_pc = "call"
    /\ as_doms \in AssocDomainPool \X AssocDomainPool \X AssocDomainPool
    /\ as_left = NullRd
    /\ as_right = NullRd

\* Both reductions, malloc() giving memory; a NULL inner result makes the
\* outer call return NULL at its argument check.
CallBothGroupings ==
    /\ as_pc = "call"
    /\ as_left' = regdom_intersect(
                      regdom_intersect(PtrTo(as_doms[1]), PtrTo(as_doms[2]), TRUE).ret,
                      PtrTo(as_doms[3]), TRUE).ret
    /\ as_right' = regdom_intersect(
                      PtrTo(as_doms[1]),
                      regdom_intersect(PtrTo(as_doms[2]), PtrTo(as_doms[3]), TRUE).ret,
                      TRUE).ret
    /\ as_pc' = "ret"
    /\ UNCHANGED <<banned, main_vars, ri_vars, rr_vars, as_doms>>

NextAssoc == CallBothGroupings

SpecAssoc == InitAssoc /\ [][NextAssoc]_vars

----------------------------------------------------------------------------
\* Notions the properties are stated in.

\* The countries that are not the world placeholder, in encounter order.
NonWorld == SelectSeq(countries, LAMBDA c : ~is_world_regdom(c.alpha2))

HasPlaceholder == \E j \in 1..Len(countries) : is_world_regdom(countries[j].alpha2)

\* The non-world countries among the first n records.
NonWorldUpTo(n) ==
    Cardinality({ j \in 1..n : ~is_world_regdom(countries[j].alpha2) })

Decoded == { p \in 1..Len(heap) : heap[p].by = "country2rd" }

\* regdom_intersect(...regdom_intersect(d_1, d_2)..., d_n) over the first n
\* domains of ds, NullRd as soon as one intersection fails.
RECURSIVE LeftFold(_, _)
LeftFold(ds, n) ==
    IF n = 1 THEN PtrTo(ds[1])
    ELSE LET acc == LeftFold(ds, n - 1)
         IN  IF acc.isnull THEN NullRd
             ELSE regdom_intersect(acc, PtrTo(ds[n]), TRUE).ret

NonWorldDomains == [j \in 1..Len(NonWorld) |-> country2rd(NonWorld[j])]

\* The running world domain: the latest intersection result, or the domain
\* it is to be intersected from.
Accumulator == IF world # NULL THEN world ELSE prev_world

\* The outcome of every ordered pair (x, y), x over rd1 outermost.
PairOutcomes(d1, d2) ==
    [k \in 1..(d1.n_reg_rules * d2.n_reg_rules) |->
        reg_rules_intersect(d1.reg_rules[((k - 1) \div d2.n_reg_rules) + 1],
                            d2.reg_rules[((k - 1) % d2.n_reg_rules) + 1])]

ValidOutcomes(d1, d2) == SelectSeq(PairOutcomes(d1, d2), LAMBDA o : o.r = 0)

ValidRules(d1, d2) ==
    [k \in 1..Len(ValidOutcomes(d1, d2)) |-> ValidOutcomes(d1, d2)[k].intersected_rule]

Returned == ri_pc = "ret" /\ ~ri_rd1.isnull /\ ~ri_rd2.isnull

----------------------------------------------------------------------------
\* C1: when the run ends (normal completion, decode failure or intersection
\* failure), every domain allocated during the run has been released exactly
\* once.
C1_ReleasedExactlyOnce ==
    pc = "done" => \A p \in 1..Len(heap) : heap[p].frees = 1

\* C2: with k >= 2 non-world domains and every intersection succeeding, the
\* domain handed to print_regdom is the left fold of regdom_intersect over
\* the domains in encounter order, and k - 1 intersections were performed.
C2_RenderedIsLeftFold ==
    (rendered # <<>> /\ Len(NonWorld) >= 2) =>
        /\ Len(rendered) = 1
        /\ rendered[1] # NULL
        /\ PtrTo(heap[rendered[1]].dom) = LeftFold(NonWorldDomains, Len(NonWorld))
        /\ ncalls = Len(NonWorld) - 1

C2_Witness ==
    /\ pc = "done"
    /\ Len(NonWorld) >= 3
    /\ rendered # <<>>
    /\ rendered[1] # NULL
    /\ heap[rendered[1]].dom.n_reg_rules >= 1

\* C3: with exactly one non-world domain, the value handed to print_regdom
\* is that domain, unchanged, and regdom_intersect is never invoked.
C3_SingletonRendered ==
    (rendered # <<>> /\ Len(NonWorld) = 1) =>
        /\ ncalls = 0
        /\ rendered[1] # NULL
        /\ heap[rendered[1]].dom = NonWorldDomains[1]

\* C4: with no non-world country the run ends with success status, performs
\* no intersection, reports no domain as found and hands nothing to the
\* renderer.
C4_EmptyNoResult ==
    (Len(NonWorld) = 0 /\ pc \in {"render", "out", "done", "crashed"}) =>
        /\ r = 0
        /\ pc # "crashed"
        /\ ncalls = 0
        /\ report = "none"
        /\ rendered = <<>>

\* C5: when regdom_intersect fails in the reduction, the run goes to the
\* cleanup at that step: no later country is decoded or intersected, the
\* renderer is not invoked, nothing is reported, and the status is non-zero.
C5_IntersectFailureAborts ==
    err \in {"could_not_intersect_world", "could_not_intersect_country"} =>
        /\ pc \in {"out", "done", "crashed"}
        /\ r # 0
        /\ rendered = <<>>
        /\ report = "none"
        /\ ncalls = intersected + 1
        /\ Cardinality(Decoded) = NonWorldUpTo(i + 1)
        /\ ncalls = NonWorldUpTo(i + 1) - 1

C5_Witness ==
    /\ pc = "done"
    /\ err = "could_not_intersect_world"
    /\ i + 1 < num_countries
    /\ NonWorldUpTo(num_countries) > NonWorldUpTo(i + 1)

\* C6: when country2rd returns no domain, the run goes to the cleanup before
\* any further intersection or decoding, the renderer is not invoked, and
\* the status is non-zero.
C6_DecodeFailureAborts ==
    err = "could_not_convert" =>
        /\ pc \in {"out", "done", "crashed"}
        /\ r # 0
        /\ rendered = <<>>
        /\ report = "none"
        /\ ncalls = intersected
        /\ Cardinality(Decoded) = NonWorldUpTo(i + 1) - 1
        /\ ncalls = IF NonWorldUpTo(i + 1) >= 2 THEN NonWorldUpTo(i + 1) - 2 ELSE 0

C6_Witness ==
    /\ pc = "done"
    /\ err = "could_not_convert"
    /\ intersected >= 1
    /\ NonWorldUpTo(num_countries) > NonWorldUpTo(i + 1)

\* C7: a world placeholder record is skipped, wherever it occurs: it is
\* never decoded (so never intersected), the step over it leaves prev_world,
\* rd, world, intersected and the heap as they were, and the domain rendered
\* is the reduction of the sequence without the placeholders.
C7_SkipFrame ==
    (pc = "loop" /\ i < num_countries /\ is_world_regdom(countries[i + 1].alpha2)) =>
        /\ i' = i + 1
        /\ UNCHANGED <<prev_world, rd, world, intersected, heap, ncalls, r,
                       report, rendered, err>>

C7_NeverDecoded ==
    /\ \A p \in 1..Len(heap) : ~is_world_regdom(heap[p].dom.alpha2)
    /\ Cardinality(Decoded) <= NonWorldUpTo(IF i < num_countries THEN i + 1 ELSE i)
    /\ (rendered # <<>> /\ rendered[1] # NULL /\ HasPlaceholder) =>
           PtrTo(heap[rendered[1]].dom) = LeftFold(NonWorldDomains, Len(NonWorld))

\* C7: both hold: the step over a placeholder changes nothing but i, and
\* a placeholder is never decoded nor part of the result.
C7_PlaceholderSkipped == [][C7_SkipFrame]_vars /\ []C7_NeverDecoded

C7_Witness ==
    /\ pc = "done"
    /\ rendered # <<>>
    /\ rendered[1] # NULL
    /\ \E j \in 2..(Len(countries) - 1) : is_world_regdom(countries[j].alpha2)
    /\ ~is_world_regdom(countries[1].alpha2)

\* C8: the domain regdom_intersect returns has as many rules as there are
\* ordered pairs (x, y) on which reg_rules_intersect succeeds, never more
\* than M * N, and its rules are those successful intersections in the
\* nested order (rd1 outermost).
C8_ResultIsValidPairs ==
    (Returned /\ ~ri_out.ret.isnull) =>
        /\ ri_out.ret.dom.n_reg_rules = Len(ValidOutcomes(ri_rd1.dom, ri_rd2.dom))
        /\ ri_out.ret.dom.n_reg_rules
              <= ri_rd1.dom.n_reg_rules * ri_rd2.dom.n_reg_rules
        /\ ri_out.ret.dom.reg_rules = ValidRules(ri_rd1.dom, ri_rd2.dom)
        /\ \A k \in 1..ri_out.ret.dom.n_reg_rules :
               is_valid_reg_rule(ri_out.ret.dom.reg_rules[k])

C8_Witness ==
    /\ Returned
    /\ ~ri_out.ret.isnull
    /\ ri_out.ret.dom.n_reg_rules >= 2
    /\ ri_out.ret.dom.n_reg_rules
          < ri_rd1.dom.n_reg_rules * ri_rd2.dom.n_reg_rules
    /\ ri_out.ret.dom.reg_rules[1] # ri_out.ret.dom.reg_rules[2]

\* C9 as stated: regdom_intersect returns no domain if and only if no pair
\* of rules has a valid intersection.
C9_FailsIffNoValidPair ==
    Returned =>
        (ri_out.ret.isnull <=> Len(ValidOutcomes(ri_rd1.dom, ri_rd2.dom)) = 0)

\* C9, amended: regdom_intersect returns no domain if and only if no pair of
\* rules has a valid intersection or malloc() gives it no memory for the
\* result; either way nothing is left allocated, and with no valid pair
\* malloc() is not even reached.
C9_FailsIffNoValidPairOrNoMemory ==
    Returned =>
        /\ ri_out.ret.isnull <=>
              (\/ Len(ValidOutcomes(ri_rd1.dom, ri_rd2.dom)) = 0
               \/ ri_out.how = "no_memory")
        /\ ri_out.ret.isnull => ri_out.mallocs = ri_out.frees
        /\ Len(ValidOutcomes(ri_rd1.dom, ri_rd2.dom)) = 0 =>
              (ri_out.how = "num_rules_0" /\ ri_out.mallocs = 0)

C9_Witness ==
    /\ Returned
    /\ ri_out.ret.isnull
    /\ ri_out.how = "num_rules_0"
    /\ ri_rd1.dom.n_reg_rules >= 1
    /\ ri_rd2.dom.n_reg_rules >= 1
    /\ banned = 0

----------------------------------------------------------------------------
\* Notions the rule properties are stated in.

Succeeded == rr_pc = "ret" /\ rr_out.r = 0

IsLargest(m, S) == m \in S /\ \A v \in S : v <= m
IsSmallest(m, S) == m \in S /\ \A v \in S : m <= v

\* bit b of the word n
Bit(n, b) == (n \div (2 ^ b)) % 2 = 1

\* C11: when reg_rules_intersect succeeds, the rule written has the larger
\* start, the smaller end, the smallest of the two bandwidths and the span,
\* the smaller max_eirp, the smaller max_antenna_gain and the union of the
\* flags; [2400-2483, bw 40, eirp 20] with [2400-2450, bw 20, eirp 17] gives
\* [2400-2450, bw 20, eirp 17].
C11_FieldsOfIntersection ==
    Succeeded =>
        LET o == rr_out.intersected_rule
            f1 == rr_rule1.freq_range
            f2 == rr_rule2.freq_range
            p1 == rr_rule1.power_rule
            p2 == rr_rule2.power_rule
            f == o.freq_range
        IN  /\ IsLargest(f.start_freq_khz, {f1.start_freq_khz, f2.start_freq_khz})
            /\ IsSmallest(f.end_freq_khz, {f1.end_freq_khz, f2.end_freq_khz})
            /\ IsSmallest(f.max_bandwidth_khz,
                          {f1.max_bandwidth_khz, f2.max_bandwidth_khz,
                           f.end_freq_khz - f.start_freq_khz})
            /\ IsSmallest(o.power_rule.max_eirp, {p1.max_eirp, p2.max_eirp})
            /\ IsSmallest(o.power_rule.max_antenna_gain,
                          {p1.max_antenna_gain, p2.max_antenna_gain})
            /\ \A b \in 0..3 :
                   Bit(o.flags, b) <=> (Bit(rr_rule1.flags, b) \/ Bit(rr_rule2.flags, b))
            /\ (rr_rule1 = P1 /\ rr_rule2 = P2) => o = Rule(2400, 2450, 20, 3, 17, 1)

C11_Witness ==
    /\ Succeeded
    /\ rr_rule1 = P1
    /\ rr_rule2 = P2
    /\ rr_out.intersected_rule.freq_range.end_freq_khz = 2450
    /\ rr_out.intersected_rule.power_rule.max_eirp = 17

\* C12: when reg_rules_intersect succeeds, the range of the rule written
\* lies within the range of each input rule, and its bandwidth does not
\* exceed its own span.
C12_ContainedAndFits ==
    Succeeded =>
        LET f == rr_out.intersected_rule.freq_range
            f1 == rr_rule1.freq_range
            f2 == rr_rule2.freq_range
        IN  /\ f1.start_freq_khz <= f.start_freq_khz
            /\ f2.start_freq_khz <= f.start_freq_khz
            /\ f.end_freq_khz <= f1.end_freq_khz
            /\ f.end_freq_khz <= f2.end_freq_khz
            /\ f.start_freq_khz <= f.end_freq_khz
            /\ f.max_bandwidth_khz <= f.end_freq_khz - f.start_freq_khz

\* the two ranges overlap partly and the smaller bandwidth exceeds the overlap
C12_Witness ==
    /\ Succeeded
    /\ rr_rule1.freq_range.start_freq_khz < rr_rule2.freq_range.start_freq_khz
    /\ rr_rule1.freq_range.end_freq_khz < rr_rule2.freq_range.end_freq_khz
    /\ rr_rule1.freq_range.max_bandwidth_khz > rr_out.intersected_rule.freq_range.max_bandwidth_khz
    /\ rr_rule2.freq_range.max_bandwidth_khz > rr_out.intersected_rule.freq_range.max_bandwidth_khz

\* C13: reg_rules_intersect(r1, r2) and reg_rules_intersect(r2, r1) both fail
\* or both succeed with the same rule, field for field.
C13_Commutative ==
    rr_pc = "ret" =>
        LET swapped == reg_rules_intersect(rr_rule2, rr_rule1)
        IN  /\ (rr_out.r = 0) <=> (swapped.r = 0)
            /\ rr_out.r = 0 => rr_out.intersected_rule = swapped.intersected_rule

C13_Witness ==
    /\ Succeeded
    /\ rr_rule1.flags = 1
    /\ rr_rule2.flags = 2
    /\ rr_rule1.freq_range # rr_rule2.freq_range
    /\ rr_rule1.power_rule.max_eirp > rr_rule2.power_rule.max_eirp
    /\ rr_out.intersected_rule.flags = 3

----------------------------------------------------------------------------
\* How often a rule occurs in a rule sequence.
Occurrences(rules, rule) == Cardinality({ k \in 1..Len(rules) : rules[k] = rule })

SameRules(rules1, rules2) ==
    /\ Len(rules1) = Len(rules2)
    /\ \A k \in 1..Len(rules1) :
           Occurrences(rules1, rules1[k]) = Occurrences(rules2, rules1[k])

\* C14: regdom_intersect(regdom_intersect(A, B), C) and
\* regdom_intersect(A, regdom_intersect(B, C)) both fail, or both succeed
\* with the same rules up to their order (an inner failure failing the
\* whole expression).
C14_AssociativeUpToOrder ==
    as_pc = "ret" =>
        /\ as_left.isnull <=> as_right.isnull
        /\ ~as_left.isnull =>
              /\ as_left.dom.n_reg_rules = as_right.dom.n_reg_rules
              /\ SameRules(as_left.dom.reg_rules, as_right.dom.reg_rules)

C14_Witness ==
    /\ as_pc = "ret"
    /\ ~as_left.isnull
    /\ ~as_right.isnull
    /\ \A j \in 1..3 : as_doms[j].n_reg_rules = 2
    /\ as_doms[1] # as_doms[2]
    /\ as_doms[2] # as_doms[3]
    /\ as_left.dom.n_reg_rules \in 2..7

----------------------------------------------------------------------------
\* C15: the final report says that only one regulatory domain was found
\* exactly when there was one non-world domain and no intersection was
\* computed; after at least one successful intersection it reports an
\* intersection of several domains.
C15_ReportDistinguishesTrivial ==
    (report # "none" /\ Len(NonWorld) >= 1) =>
        /\ report = "only_one" <=> (Len(NonWorld) = 1 /\ intersected = 0)
        /\ intersected >= 1 => report = "domains_intersected"

\* C16: the fill pass writes only successful intersections, each at a slot
\* index below num_rules; nothing is written at or beyond the end of the
\* allocation.
C16_NoWriteBeyondAllocation ==
    (Returned /\ ri_out.mallocs = 1) => ri_out.beyond = {}

----------------------------------------------------------------------------
\* The pairs (x, y), 1-based, of the two arguments of the call.
ArgPairs == (1..ri_rd1.dom.n_reg_rules) \X (1..ri_rd2.dom.n_reg_rules)

\* The ranges of the two rules of a pair do not overlap.
Disjoint(xy) ==
    LET f1 == ri_rd1.dom.reg_rules[xy[1]].freq_range
        f2 == ri_rd2.dom.reg_rules[xy[2]].freq_range
    IN  \/ f1.start_freq_khz > f2.end_freq_khz
        \/ f2.start_freq_khz > f1.end_freq_khz

PairResult(xy) ==
    reg_rules_intersect(ri_rd1.dom.reg_rules[xy[1]], ri_rd2.dom.reg_rules[xy[2]])

\* C17: a pair of rules whose ranges do not overlap is refused with -EINVAL
\* although the __u32 span wraps (and so leaves the bandwidth unclamped); it
\* adds no rule to the domain returned, and a domain with other valid pairs
\* is still returned.
C17_DisjointPairExcluded ==
    Returned =>
        /\ \A xy \in ArgPairs : Disjoint(xy) =>
               /\ PairResult(xy).r = 0 - EINVAL
               /\ IsSmallest(PairResult(xy).intersected_rule.freq_range.max_bandwidth_khz,
                             {ri_rd1.dom.reg_rules[xy[1]].freq_range.max_bandwidth_khz,
                              ri_rd2.dom.reg_rules[xy[2]].freq_range.max_bandwidth_khz})
        /\ ~ri_out.ret.isnull =>
               /\ \A k \in 1..ri_out.ret.dom.n_reg_rules :
                      ri_out.ret.dom.reg_rules[k].freq_range.start_freq_khz
                          <= ri_out.ret.dom.reg_rules[k].freq_range.end_freq_khz
               /\ ri_out.ret.dom.n_reg_rules
                      <= Cardinality({ xy \in ArgPairs : ~Disjoint(xy) })
        /\ (ri_out.how # "no_memory" /\ \E xy \in ArgPairs : PairResult(xy).r = 0) =>
               ~ri_out.ret.isnull

C17_Witness ==
    /\ Returned
    /\ ~ri_out.ret.isnull
    /\ \E xy \in ArgPairs : Disjoint(xy)
    /\ \E xy \in ArgPairs : ~Disjoint(xy) /\ PairResult(xy).r = 0

----------------------------------------------------------------------------
Live(p) == p # NULL /\ heap[p].frees = 0

\* C18: no domain is freed twice, no freed domain is dereferenced
\* (regdom_intersect, the progress and error lines, print_regdom), and at
\* the cleanup label the non-null pointers among world, rd and prev_world
\* point to distinct domains that are still allocated.
C18_NoDoubleFreeNoStaleUse ==
    /\ \A p \in 1..Len(heap) : heap[p].frees <= 1
    /\ ~stale_use
    /\ pc = "intersect" => (Live(prev_world) /\ Live(rd))
    /\ (pc = "render" /\ world # NULL) => Live(world)
    /\ pc = "out" =>
           /\ \A p \in {world, rd, prev_world} \ {NULL} : Live(p)
           /\ (world # NULL /\ rd # NULL) => world # rd
           /\ (world # NULL /\ prev_world # NULL) => world # prev_world
           /\ (rd # NULL /\ prev_world # NULL) => rd # prev_world

C18_Witness ==
    /\ pc = "done"
    /\ world # NULL
    /\ rd # NULL
    /\ prev_world # NULL
    /\ intersected >= 2
    /\ \E p \in 1..Len(heap) : heap[p].frees = 1 /\ heap[p].by = "country2rd"

\* C19: BUG_ON(!world) never fires: whenever a non-world country is being
\* processed with rd non-null at the top of the loop body, world holds the
\* result of the preceding successful intersection.
C19_BugOnNeverFires ==
    /\ pc # "bug"
    /\ (pc = "shift" /\ rd # NULL) =>
           /\ Live(world)
           /\ heap[world].by = "regdom_intersect"
           /\ intersected >= 1

C19_Witness ==
    /\ pc = "shift"
    /\ rd # NULL
    /\ world # NULL
    /\ intersected >= 2

\* C20: the counting pass and the fill pass agree: at the final check
\* rule_idx equals num_rules, so the branch that frees the domain and
\* returns NULL is never taken.
C20_PassesAgree ==
    (Returned /\ ri_out.mallocs = 1) =>
        /\ ri_out.rule_idx = ri_out.num_rules
        /\ ri_out.how = "rd"
        /\ ri_out.frees = 0
        /\ ri_out.num_rules = Len(ValidOutcomes(ri_rd1.dom, ri_rd2.dom))

C20_Witness ==
    /\ Returned
    /\ ri_out.how = "rd"
    /\ ri_out.rule_idx >= 2
    /\ ri_out.rule_idx < ri_rd1.dom.n_reg_rules * ri_rd2.dom.n_reg_rules
    /\ ri_out.beyond = {}

====
